---- MODULE Spec2Model ----
(***************************************************************************)
(* A model of auto_yolo/models/air.py:                                     *)
(*   - the AIR inference loop of AIR_Network.build_representation          *)
(*     (cond / body under tf.while_loop, and the post-processing),         *)
(*   - the spatial sampler transformer (_meshgrid/_transform/_interpolate),*)
(*   - the box construction of AIR_AP.__call__ and the AP evaluation.      *)
(*   - theta and theta_inverse of body, as affine maps,                    *)
(*   - the five sub-component attributes across calls of                   *)
(*     build_representation.                                               *)
(*                                                                         *)
(* Real numbers are fixed-point integers.  In the loop, z_pres, the        *)
(* stopping sum and the threshold are counted in 1/Unit, and the canvas in *)
(* 1/Unit^2 (a product z_pres * pixel).  max_time_steps is a count and is  *)
(* drawn from the naturals (0 included).                                   *)
(***************************************************************************)
EXTENDS Integers, Sequences, FiniteSets, TLC

\* ------------------------------------------------------------------------
\* Bounds of the model
\* ------------------------------------------------------------------------
Unit == 2

BatchSize == 2

MaxTimeSteps == 3

MaxThreshold == 3

NumPixels == 1

ImageSide == 2

Batch == 1..BatchSize

Pixels == 1..NumPixels

\* obs_shape[:2] of the network's images
obs_shape == <<ImageSide, ImageSide>>

\* the glimpse shapes a configuration may name: one inside the image, one
\* larger than the image
ObjectShapes == {<<1, 1>>, <<ImageSide + 1, ImageSide>>}

\* ------------------------------------------------------------------------
\* State
\* ------------------------------------------------------------------------
VARIABLES
    pc,                  \* "new" | "constructed" | "loop" | "done"
    max_time_steps,      \* Param
    stopping_threshold,  \* Param, in 1/Unit
    run_all_time_steps,  \* Param
    float_is_training,   \* 1 in training, 0 in evaluation
    object_shape,        \* Param
    step,                \* loop variable 0
    stopping_sum,        \* loop variable 1, [Batch -> Int], in 1/Unit
    running_recon,       \* loop variable 3, [Batch -> [Pixels -> Int]], in 1/Unit^2
    kl_loss,             \* loop variable 4, [Batch -> Int]
    running_digits,      \* loop variable 5, [Batch -> Nat]
    ta,                  \* the 14 TensorArrays, [TANames -> Seq([Batch -> Int])]
    z_pres,              \* last loop variable, [Batch -> Int], in 1/Unit
    alive,               \* the mask the last iteration computed
    predicted_n_digits,  \* self.predicted_n_digits after the loop
    tensors,             \* the padded per-step tensors of self._tensors
    reconstruction,      \* the clipped canvas, self._tensors['output']
    history,             \* per iteration: the mask alive and the written glimpse
    sp_pc,               \* the sampler: "off" | "ready" | "sampled"
    U,                   \* the sampler's source images
    theta,               \* the affine parameters, one 6-tuple per image
    out_size,            \* (out_height, out_width)
    gather,              \* per output position: the neighbours and indices
    output,              \* per output position: the interpolated value
    ap_pc,               \* the evaluator: "off" | "ready" | "evaluated"
    fetched,             \* the _tensors handed to AIR_AP.__call__
    iou_threshold,       \* AIR_AP.iou_threshold, a list, in tenths
    ground_truth_boxes,  \* per example, the list built for mAP
    predicted_boxes,     \* per example, the list built for mAP
    matching,            \* per threshold and detection: the matched box or 0
    ap,                  \* per threshold: the average precision num/den
    th_pc,               \* the transform pair: "off" | "ready" | "built"
    body_scale,          \* scale of one element, (w, h), rationals
    body_shift,          \* shift of one element, (x, y), rationals
    grid_point,          \* a coordinate (u, v), rationals
    body_theta,          \* theta of body, 6 rationals
    theta_inverse,       \* theta_inverse of body, 6 rationals
    round_trip,          \* grid_point through theta then theta_inverse, and back
    net_pc,              \* the components: "off" | "idle" | "loop"
    difference_air,      \* Param
    fixed_weights,       \* Param, the names of the components to freeze
    fixed,               \* the attributes whose instance had fix_variables() called
    components,          \* per attribute: 0 (None) or the instance it holds
    instances,           \* per attribute: the instances built or supplied so far
    invoked,             \* per attribute: the instances ever invoked
    net_step,            \* iterations of the current call
    calls                \* calls of build_representation so far

loopVars == <<pc, max_time_steps, stopping_threshold, run_all_time_steps,
              float_is_training, object_shape, step, stopping_sum,
              running_recon, kl_loss, running_digits, ta, z_pres, alive,
              predicted_n_digits, tensors, reconstruction, history>>

samplerVars == <<sp_pc, U, theta, out_size, gather, output>>

apVars == <<ap_pc, fetched, iou_threshold, ground_truth_boxes,
           predicted_boxes, matching, ap>>

thetaVars == <<th_pc, body_scale, body_shift, grid_point, body_theta,
              theta_inverse, round_trip>>

netVars == <<net_pc, difference_air, fixed_weights, fixed, components,
            instances, invoked, net_step, calls>>

vars == <<loopVars, samplerVars, apVars, thetaVars, netVars>>

\* ------------------------------------------------------------------------
\* The per-step quantities the networks and the samplers produce
\* ------------------------------------------------------------------------
TANames == {"scale", "scale_kl", "scale_std", "shift", "shift_kl", "shift_std",
            "attr", "attr_kl", "attr_std", "z_pres", "z_pres_probs",
            "z_pres_kl", "vae_input", "vae_output"}

\* What one iteration computes for one batch element before the presence
\* step: the latents, their KL terms and standard deviations, the glimpse
\* read and decoded, and the decoded glimpse written to canvas coordinates
\* (written, one value per canvas pixel, in 1/Unit).
Samples ==
    { [scale |-> 1, scale_kl |-> 1, scale_std |-> 1,
       shift |-> 0, shift_kl |-> 0, shift_std |-> 1,
       attr |-> 1, attr_kl |-> 2, attr_std |-> 1,
       z_pres_probs |-> Unit, z_pres_kl |-> 1,
       vae_input |-> 1, vae_output |-> Unit,
       written |-> [p \in Pixels |-> Unit]],
      [scale |-> 2, scale_kl |-> 0, scale_std |-> 2,
       shift |-> 1, shift_kl |-> 3, shift_std |-> 2,
       attr |-> 0, attr_kl |-> 0, attr_std |-> 2,
       z_pres_probs |-> 0, z_pres_kl |-> 0,
       vae_input |-> 0, vae_output |-> 1,
       written |-> [p \in Pixels |-> IF p = 1 THEN 1 ELSE 0]] }

Zeros == [b \in Batch |-> 0]

\* a slip: the relaxed value is kept in evaluation
RoundOmitted(z) == z

\* tf.round on a value of [0, 1]: to the nearest integer, a tie to the even one
Round(z) == IF 2 * z > Unit THEN Unit ELSE 0

\* z_pres of one batch element, from the sigmoid of the concrete sample
ZPres(z_sigmoid) ==
    IF run_all_time_steps
    THEN Unit
    ELSE float_is_training * z_sigmoid
         + (1 - float_is_training) * Round(z_sigmoid)

ZPresKl(sample_kl) == IF run_all_time_steps THEN 0 ELSE sample_kl

ZPresProb(sample_prob) == IF run_all_time_steps THEN Unit ELSE sample_prob

\* a slip: the sum is assigned, not accumulated
StoppingSumAssigned(ss, zp) == Unit - zp

\* a slip: the sum of an element at or above the threshold is frozen
StoppingSumFrozenWhenDead(ss, zp) ==
    IF ss >= stopping_threshold THEN ss ELSE ss + (Unit - zp)

\* stopping_sum += (1.0 - z_pres)
StoppingSumUpdate(ss, zp) == ss + (Unit - zp)

\* a slip: tf.less_equal in place of tf.less
AliveLessEqual(ss) == ss <= stopping_threshold

\* alive = tf.less(stopping_sum, self.stopping_threshold)
Alive(ss) == ss < stopping_threshold

\* a slip: the mask is ignored
WhereUnmasked(al, value) == value

\* a slip: the branches of tf.where are exchanged
WhereInverted(al, value) == IF al THEN 0 ELSE value

\* tf.where(alive, value, zeros)
Where(al, value) == IF al THEN value ELSE 0

\* a slip: the counter advances by two
NextStepByTwo(s) == s + 2

\* step + 1, the first element body returns
NextStep(s) == s + 1

\* a slip: reduce_all in place of reduce_any
condAll(s, ss) ==
    /\ s < max_time_steps
    /\ \A b \in Batch : ss[b] < stopping_threshold

\* a slip: the step bound is not tested
condUnbounded(s, ss) ==
    \E b \in Batch : ss[b] < stopping_threshold

\* the condition of the while-loop
cond(s, ss) ==
    /\ s < max_time_steps
    /\ \E b \in Batch : ss[b] < stopping_threshold

\* a slip: only the lower bound is enforced
ClipLowerOnly(v, lo, hi) == IF v < lo THEN lo ELSE v

\* tf.clip_by_value
ClipByValue(v, lo, hi) == IF v < lo THEN lo ELSE IF v > hi THEN hi ELSE v

\* a slip: the canvas is left unclipped
ClipOmitted(v) == v

\* reconstruction = tf.clip_by_value(reconstruction, 0.0, 1.0), per pixel
ClipReconstruction(v) == ClipByValue(v, 0, Unit * Unit)

RECURSIVE ZeroRows(_)
ZeroRows(n) == IF n <= 0 THEN <<>> ELSE <<Zeros>> \o ZeroRows(n - 1)

\* a slip: the padding goes in front, [[0, 0], [time_pad, 0]]
process_tensor_array_left_padded(tensor_array) ==
    ZeroRows(max_time_steps - Len(tensor_array)) \o tensor_array

\* process_tensor_array: stack, then right-pad the time axis to max_time_steps
process_tensor_array(tensor_array) ==
    tensor_array \o ZeroRows(max_time_steps - Len(tensor_array))

\* ------------------------------------------------------------------------
\* Actions
\* ------------------------------------------------------------------------
NoLoopState ==
    /\ step = 0
    /\ stopping_sum = Zeros
    /\ running_recon = [b \in Batch |-> [p \in Pixels |-> 0]]
    /\ kl_loss = Zeros
    /\ running_digits = Zeros
    /\ ta = [n \in TANames |-> <<>>]
    /\ z_pres = Zeros
    /\ alive = [b \in Batch |-> FALSE]
    /\ predicted_n_digits = Zeros
    /\ tensors = [n \in TANames |-> <<>>]
    /\ reconstruction = [b \in Batch |-> [p \in Pixels |-> 0]]
    /\ history = <<>>

\* no network is being built
LoopOff ==
    /\ pc = "off"
    /\ max_time_steps = 0
    /\ stopping_threshold = 0
    /\ run_all_time_steps = FALSE
    /\ float_is_training = 0
    /\ object_shape = <<1, 1>>
    /\ NoLoopState

\* no sampler call is under way
SamplerOff ==
    /\ sp_pc = "off"
    /\ U = [num_batch |-> 0, height |-> 0, width |-> 0, flat |-> <<>>]
    /\ theta = <<>>
    /\ out_size = <<0, 0>>
    /\ gather = <<>>
    /\ output = <<>>

\* no evaluation is under way
EvaluatorOff ==
    /\ ap_pc = "off"
    /\ fetched = <<>>
    /\ iou_threshold = <<>>
    /\ ground_truth_boxes = <<>>
    /\ predicted_boxes = <<>>
    /\ matching = <<>>
    /\ ap = <<>>

\* no transform pair is being built
TransformPairOff ==
    /\ th_pc = "off"
    /\ body_scale = <<>>
    /\ body_shift = <<>>
    /\ grid_point = <<>>
    /\ body_theta = <<>>
    /\ theta_inverse = <<>>
    /\ round_trip = <<>>

\* the component attributes are not followed
ComponentsOff ==
    /\ net_pc = "off"
    /\ difference_air = FALSE
    /\ fixed_weights = {}
    /\ fixed = {}
    /\ components = <<>>
    /\ instances = <<>>
    /\ invoked = <<>>
    /\ net_step = 0
    /\ calls = 0

Init ==
    /\ pc = "new"
    /\ max_time_steps \in 0..MaxTimeSteps
    /\ stopping_threshold \in 0..MaxThreshold
    /\ run_all_time_steps \in BOOLEAN
    /\ float_is_training \in {0, 1}
    /\ object_shape \in ObjectShapes
    /\ NoLoopState
    /\ SamplerOff
    /\ EvaluatorOff
    /\ TransformPairOff
    /\ ComponentsOff

\* AIR_Network.__init__: builds the evaluation functions and the scheduled
\* values; no parameter is inspected
Construct ==
    /\ pc = "new"
    /\ pc' = "constructed"
    /\ UNCHANGED <<max_time_steps, stopping_threshold, run_all_time_steps,
                   float_is_training, object_shape, step, stopping_sum,
                   running_recon, kl_loss, running_digits, ta, z_pres, alive,
                   predicted_n_digits, tensors, reconstruction, history>>
    /\ UNCHANGED <<samplerVars, apVars, thetaVars, netVars>>

\* build_representation up to the tf.while_loop call: the loop variables get
\* their initial values
EnterLoop ==
    /\ pc = "constructed"
    /\ pc' = "loop"
    /\ step' = 0
    /\ stopping_sum' = Zeros
    /\ running_recon' = [b \in Batch |-> [p \in Pixels |-> 0]]
    /\ kl_loss' = Zeros
    /\ running_digits' = Zeros
    /\ ta' = [n \in TANames |-> <<>>]
    /\ z_pres' = Zeros
    /\ history' = <<>>
    /\ UNCHANGED <<max_time_steps, stopping_threshold, run_all_time_steps,
                   float_is_training, object_shape, alive,
                   predicted_n_digits, tensors, reconstruction>>
    /\ UNCHANGED <<samplerVars, apVars, thetaVars, netVars>>

\* one iteration of the while-loop: cond holds, body runs
Body ==
    /\ pc = "loop"
    /\ cond(step, stopping_sum)
    /\ \E zs \in [Batch -> 0..Unit], smp \in [Batch -> Samples] :
        LET zp == [b \in Batch |-> ZPres(zs[b])]
            zkl == [b \in Batch |-> ZPresKl(smp[b].z_pres_kl)]
            ss == [b \in Batch |-> StoppingSumUpdate(stopping_sum[b], zp[b])]
            al == [b \in Batch |-> Alive(ss[b])]
            row == [n \in TANames |->
                      [b \in Batch |->
                          CASE n = "z_pres" -> zp[b]
                            [] n = "z_pres_kl" -> zkl[b]
                            [] n = "z_pres_probs" -> ZPresProb(smp[b].z_pres_probs)
                            [] OTHER -> smp[b][n]]]
        IN  /\ stopping_sum' = ss
            /\ alive' = al
            /\ running_digits' =
                   [b \in Batch |-> running_digits[b] + Where(al[b], 1)]
            /\ running_recon' =
                   [b \in Batch |-> [p \in Pixels |->
                       running_recon[b][p]
                       + Where(al[b], zp[b] * smp[b].written[p])]]
            /\ kl_loss' =
                   [b \in Batch |->
                       kl_loss[b] + Where(al[b], smp[b].scale_kl)
                                  + Where(al[b], smp[b].shift_kl)
                                  + Where(al[b], smp[b].attr_kl)
                                  + Where(al[b], zkl[b])]
            /\ ta' = [n \in TANames |-> Append(ta[n], row[n])]
            /\ z_pres' = zp
            /\ step' = NextStep(step)
            /\ history' =
                   Append(history,
                          [alive |-> al,
                           vae_output_transformed |->
                               [b \in Batch |-> smp[b].written]])
    /\ UNCHANGED <<pc, max_time_steps, stopping_threshold, run_all_time_steps,
                   float_is_training, object_shape,
                   predicted_n_digits, tensors, reconstruction>>
    /\ UNCHANGED <<samplerVars, apVars, thetaVars, netVars>>

\* cond fails: the loop returns and build_representation post-processes
ExitLoop ==
    /\ pc = "loop"
    /\ ~cond(step, stopping_sum)
    /\ pc' = "done"
    /\ predicted_n_digits' = running_digits
    /\ tensors' = [n \in TANames |-> process_tensor_array(ta[n])]
    /\ reconstruction' =
           [b \in Batch |-> [p \in Pixels |->
               ClipReconstruction(running_recon[b][p])]]
    /\ UNCHANGED <<max_time_steps, stopping_threshold, run_all_time_steps,
                   float_is_training, object_shape, step, stopping_sum,
                   running_recon, kl_loss, running_digits, ta, z_pres, alive,
                   history>>
    /\ UNCHANGED <<samplerVars, apVars, thetaVars, netVars>>

Next == Construct \/ EnterLoop \/ Body \/ ExitLoop

Spec == Init /\ [][Next]_vars

\* the while-loop is executed to its end once started
FairSpec == Spec /\ WF_vars(Next)

\* ------------------------------------------------------------------------
\* The spatial sampler: transformer(U, theta, out_size)
\*
\* Coordinates are exact rationals.  An entry of theta is counted in
\* 1/ThetaDen, a grid coordinate in 1/GridDen, a source coordinate x_s in
\* 1/Den and a pixel coordinate in 1/PixDen.  An interpolated value is the
\* triple <<c2, c1, c0>> that stands for c2 + c1/PixDen + c0/PixDen^2 with
\* 0 <= c1, c0 < PixDen.  Images have one channel.
\* ------------------------------------------------------------------------
ThetaDen == 2

RECURSIVE Gcd(_, _)
Gcd(a, b) == IF b = 0 THEN a ELSE Gcd(b, a % b)

RECURSIVE LcmUpTo(_)
LcmUpTo(n) ==
    IF n <= 1 THEN 1
    ELSE LET l == LcmUpTo(n - 1) IN (l * n) \div Gcd(l, n)

\* output sizes go up to ImageSide + 1, so a grid step is 2/d with d <= ImageSide
GridDen == LcmUpTo(ImageSide)

Den == ThetaDen * GridDen

PixDen == 2000 * Den

\* the pixel patterns of the source images
Pattern(pat, b, y, x) ==
    CASE pat = "ones" -> 1
      [] pat = "checker" -> (b + y + x) % 2
      [] pat = "columns" -> (b + x) % 2
      [] pat = "batch" -> b % 2

\* a [num_batch, height, width, 1] tensor, kept as the flat array that
\* tf.reshape(im, [-1, channels]) yields
Image(B, H, W, pat) ==
    [num_batch |-> B, height |-> H, width |-> W,
     flat |-> [i \in 1..(B * H * W) |->
                  Pattern(pat, (i - 1) \div (H * W),
                          ((i - 1) % (H * W)) \div W, (i - 1) % W)]]

Images ==
    { Image(BatchSize, H, W, pat) :
        H \in 1..ImageSide, W \in 1..ImageSide,
        pat \in {"ones", "checker", "columns", "batch"} }

\* [[a, b, tx], [c, d, ty]] flattened, in 1/ThetaDen
IdentityTheta == <<ThetaDen, 0, 0, 0, ThetaDen, 0>>

Thetas ==
    { IdentityTheta,
      <<1, 0, 1, 0, 1, -1>>,
      <<4 * ThetaDen, 0, 3 * ThetaDen, 0, 4 * ThetaDen, -3 * ThetaDen>>,
      <<0, -ThetaDen, 0, ThetaDen, 0, 0>>,
      <<-ThetaDen, ThetaDen, -5 * ThetaDen, ThetaDen, ThetaDen, 5 * ThetaDen>> }

OutSizes(im) ==
    { <<im.height, im.width>>, <<1, 1>>, <<1, 2>>,
      <<ImageSide + 1, ImageSide + 1>> }

\* tf.linspace(-1.0, 1.0, n)[j], in 1/GridDen
linspace(j, n) ==
    IF n = 1 THEN -GridDen ELSE -GridDen + (2 * j * GridDen) \div (n - 1)

\* _meshgrid(height, width): column k of the 3 x (height*width) grid
meshgrid(height, width, k) ==
    [x_t |-> linspace(k % width, width),
     y_t |-> linspace(k \div width, height),
     ones |-> GridDen]

\* rows of T_g = tf.matmul(theta, grid), in 1/Den
x_s(th, g) == th[1] * g.x_t + th[2] * g.y_t + th[3] * g.ones

y_s(th, g) == th[4] * g.x_t + th[5] * g.y_t + th[6] * g.ones

\* a slip: the scaling of the layer this was adapted from, (x + 1) * width / 2
ScaleToWidth(c, size) == (c + Den) * (1000 * size)

\* (x + 1.0) * (width_f - 1.001) / 2.0, in 1/PixDen
ScaleToPixels(c, size) == (c + Den) * (1000 * size - 1001)

\* tf.floor of n/d
Floor(n, d) == n \div d

\* tf.gather(im_flat, idx); an index outside the array reads as 0
Gather(flat, idx) ==
    IF idx >= 0 /\ idx < Len(flat) THEN flat[idx + 1] ELSE 0

BigNorm(t) ==
    LET c1 == t[2] + t[3] \div PixDen
    IN  <<t[1] + c1 \div PixDen, c1 % PixDen, t[3] % PixDen>>

\* (w1/PixDen) * (w2/PixDen) * I
BigMul(w1, w2, I) ==
    LET q1 == w1 \div PixDen
        r1 == w1 % PixDen
        q2 == w2 \div PixDen
        r2 == w2 % PixDen
    IN  BigNorm(<<q1 * q2 * I, (q1 * r2 + q2 * r1) * I, r1 * r2 * I>>)

\* tf.add_n
BigAdd4(a, b, c, d) ==
    BigNorm(<<a[1] + b[1] + c[1] + d[1], a[2] + b[2] + c[2] + d[2],
              a[3] + b[3] + c[3] + d[3]>>)

\* _interpolate at flat output position k (from 0), for source coordinates
\* xs, ys in 1/Den
interpolate(im, xs, ys, k, osz) ==
    LET height == im.height
        width == im.width
        max_y == height - 1
        max_x == width - 1
        x == ScaleToPixels(xs, width)
        y == ScaleToPixels(ys, height)
        fx == Floor(x, PixDen)
        fy == Floor(y, PixDen)
        x0 == ClipByValue(fx, 0, max_x)
        x1 == ClipByValue(fx + 1, 0, max_x)
        y0 == ClipByValue(fy, 0, max_y)
        y1 == ClipByValue(fy + 1, 0, max_y)
        dim2 == width
        dim1 == width * height
        base == (k \div (osz[1] * osz[2])) * dim1
        base_y0 == base + y0 * dim2
        base_y1 == base + y1 * dim2
        idx_a == base_y0 + x0
        idx_b == base_y1 + x0
        idx_c == base_y0 + x1
        idx_d == base_y1 + x1
        Ia == Gather(im.flat, idx_a)
        Ib == Gather(im.flat, idx_b)
        Ic == Gather(im.flat, idx_c)
        Id == Gather(im.flat, idx_d)
        wx1 == x1 * PixDen - x
        wx0 == x - x0 * PixDen
        wy1 == y1 * PixDen - y
        wy0 == y - y0 * PixDen
    IN  [floor_x |-> fx, floor_y |-> fy,
         x0 |-> x0, x1 |-> x1, y0 |-> y0, y1 |-> y1,
         idx_a |-> idx_a, idx_b |-> idx_b, idx_c |-> idx_c, idx_d |-> idx_d,
         value |-> BigAdd4(BigMul(wx1, wy1, Ia), BigMul(wx1, wy0, Ib),
                           BigMul(wx0, wy1, Ic), BigMul(wx0, wy0, Id))]

SamplerInit ==
    /\ sp_pc = "ready"
    /\ U \in Images
    /\ theta = <<>>
    /\ out_size = <<0, 0>>
    /\ gather = <<>>
    /\ output = <<>>
    /\ pc = "off"
    /\ max_time_steps = 0
    /\ stopping_threshold = 0
    /\ run_all_time_steps = FALSE
    /\ float_is_training = 0
    /\ object_shape = <<1, 1>>
    /\ NoLoopState
    /\ EvaluatorOff
    /\ TransformPairOff
    /\ ComponentsOff

\* transformer(U, theta, out_size): _transform, which calls _meshgrid and
\* _interpolate and reshapes the result
Transformer ==
    /\ sp_pc = "ready"
    /\ \E th \in [1..U.num_batch -> Thetas], osz \in OutSizes(U) :
        LET n == osz[1] * osz[2]
            res == [k \in 0..(U.num_batch * n - 1) |->
                      LET g == meshgrid(osz[1], osz[2], k % n)
                          t == th[k \div n + 1]
                      IN  interpolate(U, x_s(t, g), y_s(t, g), k, osz)]
        IN  /\ theta' = th
            /\ out_size' = osz
            /\ gather' = [k \in DOMAIN res |->
                            [f \in DOMAIN res[k] \ {"value"} |-> res[k][f]]]
            /\ output' = [k \in DOMAIN res |-> res[k].value]
    /\ sp_pc' = "sampled"
    /\ UNCHANGED U
    /\ UNCHANGED <<loopVars, apVars, thetaVars, netVars>>

SamplerNext == Transformer

SamplerSpec == SamplerInit /\ [][SamplerNext]_vars

\* ------------------------------------------------------------------------
\* The Average-Precision evaluator: AIR_AP.__call__ and mAP
\*
\* scale and shift are counted in 1/ScaleDen, box coordinates in
\* 1/(2*ScaleDen) pixel, IoU thresholds in tenths.  An average precision
\* is the fraction num/den.
\* ------------------------------------------------------------------------
ScaleDen == 4

APSteps == 2

MaxAnnotations == 2

image_height == obs_shape[1]

image_width == obs_shape[2]

\* what the network emits for one object: scale (w, h) of (0, 1) and shift
\* (x, y) of [-1, 1]
LatentA == [w |-> 2, h |-> 2, x |-> 0, y |-> 0]

LatentB == [w |-> 1, h |-> ScaleDen - 1, x |-> 2, y |-> -2]

\* annotations (valid, class, top, bottom, left, right)
AnnotationA ==
    <<1, 3, image_height * (ScaleDen - 2), image_height * (ScaleDen + 2),
            image_width * (ScaleDen - 2), image_width * (ScaleDen + 2)>>

AnnotationInvalidA ==
    <<0, 0, image_height * (ScaleDen - 2), image_height * (ScaleDen + 2),
            image_width * (ScaleDen - 2), image_width * (ScaleDen + 2)>>

AnnotationShiftedA ==
    <<1, 0, image_height * (ScaleDen - 1), image_height * (ScaleDen + 3),
            image_width * (ScaleDen - 2), image_width * (ScaleDen + 2)>>

AnnotationB ==
    <<1, 1, -image_height, image_height * (2 * ScaleDen - 3),
            image_width * (ScaleDen + 1), image_width * (ScaleDen + 3)>>

AnnotationArrays ==
    { <<AnnotationA, AnnotationShiftedA>>, <<AnnotationA, AnnotationA>>,
      <<AnnotationInvalidA, AnnotationA>>, <<AnnotationShiftedA, AnnotationB>>,
      <<AnnotationB, AnnotationA>>, <<AnnotationShiftedA, AnnotationInvalidA>> }

\* the thresholds AIR_Network.__init__ hands to AIR_AP, and 1.0
IouThresholds ==
    { <<1>>, <<6>>, <<7>>, <<10>>, <<1, 2, 3, 4, 5, 6, 7, 8, 9>> }

Min(a, b) == IF a < b THEN a ELSE b

Max(a, b) == IF a > b THEN a ELSE b

\* [0, 1, top, bottom, left, right] of AIR_AP.__call__
PredictedBox(w, h, x, y) ==
    LET transformed_x == x + ScaleDen
        transformed_y == y + ScaleDen
        height == 2 * h * image_height
        width == 2 * w * image_width
        top == image_height * transformed_y - height \div 2
        left == image_width * transformed_x - width \div 2
        bottom == top + height
        right == left + width
    IN  <<0, 1, top, bottom, left, right>>

\* a slip: the annotation's class is kept
GroundTruthBoxKeepingClass(annotation) == Tail(annotation)

\* [0, *rest] for (valid, cls, *rest)
GroundTruthBox(annotation) == <<0>> \o Tail(Tail(annotation))

\* the list comprehension over zip(annotations[idx], range(n_annotations[idx]))
GroundTruthBoxes(annotations, n_annotations) ==
    LET zipped == SubSeq(annotations, 1, Min(Len(annotations), n_annotations))
        IsValid(a) == a[1] # 0
        kept == SelectSeq(zipped, IsValid)
    IN  [i \in 1..Len(kept) |-> GroundTruthBox(kept[i])]

\* a slip: a box for every time step of the padded axis
PredictedBoxesAllSteps(latents, n_digits) ==
    [t \in 1..Len(latents) |->
        PredictedBox(latents[t].w, latents[t].h, latents[t].x, latents[t].y)]

\* for t in range(predicted_n_digits[idx])
PredictedBoxes(latents, n_digits) ==
    [t \in 1..n_digits |->
        PredictedBox(latents[t].w, latents[t].h, latents[t].x, latents[t].y)]

\* --- mAP(predicted_boxes, ground_truth_boxes, n_classes=1, iou_threshold)
Coordinates(box) == SubSeq(box, Len(box) - 3, Len(box))

Area(c) == (c[2] - c[1]) * (c[4] - c[3])

Intersection(p, g) ==
    LET hh == Min(p[2], g[2]) - Max(p[1], g[1])
        ww == Min(p[4], g[4]) - Max(p[3], g[3])
    IN  IF hh > 0 /\ ww > 0 THEN hh * ww ELSE 0

Union(p, g) == Area(p) + Area(g) - Intersection(p, g)

\* IoU(p, g) >= thr/10
IouAtLeast(p, g, thr) ==
    /\ Union(p, g) > 0
    /\ 10 * Intersection(p, g) >= thr * Union(p, g)

\* IoU(p, g) >= IoU(p, h)
IouNotBelow(p, g, h) ==
    Intersection(p, g) * Union(p, h) >= Intersection(p, h) * Union(p, g)

\* the detections of class cls of all examples, in example order
RECURSIVE Detections(_, _, _)
Detections(pred, idx, cls) ==
    IF idx > Len(pred) THEN <<>>
    ELSE LET IsClass(b) == b[1] = cls
             mine == SelectSeq(pred[idx], IsClass)
         IN  [i \in 1..Len(mine) |-> [ex |-> idx, box |-> mine[i]]]
             \o Detections(pred, idx + 1, cls)

\* by decreasing score, equal scores in their given order
RECURSIVE SortByScore(_)
SortByScore(ds) ==
    IF Len(ds) <= 1 THEN ds
    ELSE LET rest == SortByScore(Tail(ds))
             hd == Head(ds)
             k == Cardinality({i \in 1..Len(rest) : rest[i].box[2] > hd.box[2]})
         IN  SubSeq(rest, 1, k) \o <<hd>> \o SubSeq(rest, k + 1, Len(rest))

\* greedy assignment in rank order: a detection takes the box of its example
\* and class with the highest IoU among those not yet matched, if that IoU
\* reaches the threshold; assigned[i] is the box index, or 0
RECURSIVE GreedyMatch(_, _, _, _, _)
GreedyMatch(dets, gts, cls, thr, assigned) ==
    IF Len(assigned) = Len(dets) THEN assigned
    ELSE LET d == dets[Len(assigned) + 1]
             p == Coordinates(d.box)
             taken == {assigned[i] : i \in {j \in 1..Len(assigned) :
                                              dets[j].ex = d.ex}}
             free == {g \in 1..Len(gts[d.ex]) :
                         g \notin taken /\ gts[d.ex][g][1] = cls}
             ok == {g \in free : IouAtLeast(p, Coordinates(gts[d.ex][g]), thr)}
             best == CHOOSE g \in ok : \A h \in ok :
                         /\ IouNotBelow(p, Coordinates(gts[d.ex][g]),
                                           Coordinates(gts[d.ex][h]))
                         /\ (IouNotBelow(p, Coordinates(gts[d.ex][h]),
                                            Coordinates(gts[d.ex][g]))
                                => g <= h)
         IN  GreedyMatch(dets, gts, cls, thr,
                         Append(assigned, IF ok = {} THEN 0 ELSE best))

RECURSIVE SumOver(_, _)
SumOver(f, S) ==
    IF S = {} THEN 0
    ELSE LET e == CHOOSE e \in S : TRUE IN f[e] + SumOver(f, S \ {e})

\* the area under the interpolated precision/recall curve, as num/den
AveragePrecision(assigned, n_gt) ==
    LET N == Len(assigned)
        L == LcmUpTo(N)
        TP(k) == Cardinality({i \in 1..k : assigned[i] # 0})
        precision == [k \in 1..N |-> (TP(k) * L) \div k]
        interpolated == [k \in 1..N |->
                            CHOOSE v \in {precision[j] : j \in k..N} :
                                \A j \in k..N : precision[j] <= v]
    IN  [num |-> SumOver(interpolated, {k \in 1..N : assigned[k] # 0}),
         den |-> L * n_gt]

CountClass(gts, cls) ==
    SumOver([idx \in 1..Len(gts) |->
                Cardinality({g \in 1..Len(gts[idx]) : gts[idx][g][1] = cls})],
            1..Len(gts))

EvaluatorInit ==
    /\ ap_pc = "ready"
    /\ fetched \in
         [Batch -> [latents : [1..APSteps -> {LatentA, LatentB}],
                    predicted_n_digits : 0..APSteps,
                    annotations : AnnotationArrays,
                    n_annotations : 0..MaxAnnotations]]
    /\ iou_threshold = <<>>
    /\ ground_truth_boxes = <<>>
    /\ predicted_boxes = <<>>
    /\ matching = <<>>
    /\ ap = <<>>
    /\ pc = "off"
    /\ max_time_steps = 0
    /\ stopping_threshold = 0
    /\ run_all_time_steps = FALSE
    /\ float_is_training = 0
    /\ object_shape = <<1, 1>>
    /\ NoLoopState
    /\ SamplerOff
    /\ TransformPairOff
    /\ ComponentsOff

\* AIR_AP.__call__: the boxes of every example, then mAP with one class
AIR_AP_call ==
    /\ ap_pc = "ready"
    /\ \E iou \in IouThresholds :
        LET gts == [idx \in Batch |->
                       GroundTruthBoxes(fetched[idx].annotations,
                                        fetched[idx].n_annotations)]
            pred == [idx \in Batch |->
                        PredictedBoxes(fetched[idx].latents,
                                       fetched[idx].predicted_n_digits)]
            dets == SortByScore(Detections(pred, 1, 0))
            m == [i \in 1..Len(iou) |->
                     GreedyMatch(dets, gts, 0, iou[i], <<>>)]
        IN  /\ iou_threshold' = iou
            /\ ground_truth_boxes' = gts
            /\ predicted_boxes' = pred
            /\ matching' = m
            /\ ap' = [i \in 1..Len(iou) |->
                         AveragePrecision(m[i], CountClass(gts, 0))]
    /\ ap_pc' = "evaluated"
    /\ UNCHANGED fetched
    /\ UNCHANGED <<loopVars, samplerVars, thetaVars, netVars>>

EvaluatorNext == AIR_AP_call

EvaluatorSpec == EvaluatorInit /\ [][EvaluatorNext]_vars

\* ------------------------------------------------------------------------
\* The read and write transforms of body: theta and theta_inverse
\*
\* Numbers are exact rationals <<n, d>> in lowest terms with d > 0.
\* ------------------------------------------------------------------------
RatDen == 4

Abs(a) == IF a < 0 THEN -a ELSE a

Rat(n, d) ==
    LET g == Gcd(Abs(n), Abs(d))
        sgn == IF d < 0 THEN -1 ELSE 1
    IN  <<(sgn * n) \div g, (sgn * d) \div g>>

RatZero == <<0, 1>>

RatOne == <<1, 1>>

RatNeg(a) == <<-a[1], a[2]>>

RatAdd(a, b) == Rat(a[1] * b[2] + b[1] * a[2], a[2] * b[2])

RatMul(a, b) == Rat(a[1] * b[1], a[2] * b[2])

\* a / b for b # 0
RatDiv(a, b) == Rat(a[1] * b[2], a[2] * b[1])

\* the values of tf.nn.sigmoid: w and h lie in (0, 1)
Scales == {Rat(k, RatDen) : k \in 1..(RatDen - 1)}

\* the values of tf.nn.tanh: x and y lie in (-1, 1)
Shifts == {Rat(k, RatDen) : k \in (1 - RatDen)..(RatDen - 1)}

\* coordinates of the sampling grid, in [-1, 1]
GridCoordinates == {Rat(k, RatDen) : k \in {-RatDen, -1, 0, 2, RatDen}}

\* theta = tf.concat([w, zeros, x, zeros, h, y]), as [[w, 0, x], [0, h, y]]
Theta(w, h, x, y) == <<w, RatZero, x, RatZero, h, y>>

\* a slip: the translation is negated and not rescaled
ThetaInverseUnscaledShift(w, h, x, y) ==
    <<RatDiv(RatOne, w), RatZero, RatNeg(x),
      RatZero, RatDiv(RatOne, h), RatNeg(y)>>

\* theta_inverse = tf.concat([1. / w, zeros, -x / w, zeros, 1. / h, -y / h])
ThetaInverse(w, h, x, y) ==
    <<RatDiv(RatOne, w), RatZero, RatDiv(RatNeg(x), w),
      RatZero, RatDiv(RatOne, h), RatDiv(RatNeg(y), h)>>

\* tf.matmul(theta, grid) for the grid column (u, v, 1)
Affine(th, p) ==
    <<RatAdd(RatAdd(RatMul(th[1], p[1]), RatMul(th[2], p[2])), th[3]),
      RatAdd(RatAdd(RatMul(th[4], p[1]), RatMul(th[5], p[2])), th[6])>>

TransformPairInit ==
    /\ th_pc = "ready"
    /\ body_scale \in Scales \X Scales
    /\ body_shift \in Shifts \X Shifts
    /\ grid_point \in GridCoordinates \X GridCoordinates
    /\ body_theta = <<>>
    /\ theta_inverse = <<>>
    /\ round_trip = <<>>
    /\ LoopOff
    /\ SamplerOff
    /\ EvaluatorOff
    /\ ComponentsOff

\* body from "Extract windows from scene" to "Place reconstructed objects in
\* image": theta and theta_inverse of one element, and what the two
\* transformer calls make of a grid coordinate
BuildTransformPair ==
    /\ th_pc = "ready"
    /\ LET w == body_scale[1]
           h == body_scale[2]
           x == body_shift[1]
           y == body_shift[2]
           th == Theta(w, h, x, y)
           ti == ThetaInverse(w, h, x, y)
       IN  /\ body_theta' = th
           /\ theta_inverse' = ti
           /\ round_trip' =
                  [read |-> Affine(th, grid_point),
                   read_write |-> Affine(ti, Affine(th, grid_point)),
                   write |-> Affine(ti, grid_point),
                   write_read |-> Affine(th, Affine(ti, grid_point))]
    /\ th_pc' = "built"
    /\ UNCHANGED <<body_scale, body_shift, grid_point>>
    /\ UNCHANGED <<loopVars, samplerVars, apVars, netVars>>

TransformPairNext == BuildTransformPair

TransformPairSpec == TransformPairInit /\ [][TransformPairNext]_vars

\* ------------------------------------------------------------------------
\* The five sub-components of the network across calls of
\* build_representation
\*
\* An attribute holds 0 (None) or the number of the instance it refers to.
\* ------------------------------------------------------------------------
MaxCalls == 2

ComponentNames ==
    {"image_encoder", "cell", "output_network", "object_encoder",
     "object_decoder"}

\* a slip: the attribute is not tested
BuildAlways(attribute, n_instances) == n_instances + 1

\* if self.x is None: self.x = cfg.build_x(scope=...)
BuildIfNone(attribute, n_instances) ==
    IF attribute = 0 THEN n_instances + 1 ELSE attribute

\* the name looked up in self.fixed_weights for an attribute
FixedWeightsKey(n) == IF n = "output_network" THEN "output" ELSE n

\* the instances body calls in one iteration: the cell, the output network,
\* the object encoder and decoder, and the image encoder in difference mode
InvokedInBody ==
    IF difference_air THEN ComponentNames
    ELSE ComponentNames \ {"image_encoder"}

ComponentsInit ==
    /\ net_pc = "idle"
    /\ difference_air \in BOOLEAN
    /\ fixed_weights \in SUBSET {FixedWeightsKey(n) : n \in ComponentNames}
    /\ fixed = {}
    /\ components \in [ComponentNames -> {0, 1}]
    /\ instances = components
    /\ invoked = [n \in ComponentNames |-> {}]
    /\ net_step = 0
    /\ calls = 0
    /\ LoopOff
    /\ SamplerOff
    /\ EvaluatorOff
    /\ TransformPairOff

\* build_representation up to the while-loop: each missing component is
\* built, and frozen if self.fixed_weights names it; without difference_air
\* the image encoder is applied to the input
BuildComponents ==
    /\ net_pc = "idle"
    /\ calls < MaxCalls
    /\ LET built == [n \in ComponentNames |->
                        BuildIfNone(components[n], instances[n])]
       IN  /\ components' = built
           /\ instances' = [n \in ComponentNames |->
                               IF built[n] # components[n]
                               THEN instances[n] + 1 ELSE instances[n]]
           /\ fixed' = fixed \cup
                  {n \in ComponentNames :
                      /\ built[n] # components[n]
                      /\ FixedWeightsKey(n) \in fixed_weights}
           /\ invoked' =
                  IF difference_air THEN invoked
                  ELSE [invoked EXCEPT !["image_encoder"] =
                           @ \cup {built["image_encoder"]}]
    /\ net_pc' = "loop"
    /\ net_step' = 0
    /\ calls' = calls + 1
    /\ UNCHANGED <<difference_air, fixed_weights>>
    /\ UNCHANGED <<loopVars, samplerVars, apVars, thetaVars>>

\* one iteration of body: the components are called through the attributes
InvokeComponents ==
    /\ net_pc = "loop"
    /\ net_step < MaxTimeSteps
    /\ invoked' = [n \in ComponentNames |->
                      IF n \in InvokedInBody
                      THEN invoked[n] \cup {components[n]} ELSE invoked[n]]
    /\ net_step' = net_step + 1
    /\ UNCHANGED <<net_pc, difference_air, fixed_weights, fixed, components,
                   instances, calls>>
    /\ UNCHANGED <<loopVars, samplerVars, apVars, thetaVars>>

\* the while-loop ends and build_representation returns
ReturnFromBuild ==
    /\ net_pc = "loop"
    /\ net_pc' = "idle"
    /\ UNCHANGED <<difference_air, fixed_weights, fixed, components,
                   instances, invoked, net_step, calls>>
    /\ UNCHANGED <<loopVars, samplerVars, apVars, thetaVars>>

ComponentsNext == BuildComponents \/ InvokeComponents \/ ReturnFromBuild

ComponentsSpec == ComponentsInit /\ [][ComponentsNext]_vars

\* ------------------------------------------------------------------------
\* Properties of the inference loop
\* ------------------------------------------------------------------------
Iterations == Len(ta["z_pres"])

\* C1: the loop terminates; the step counter starts at 0, grows by exactly 1
\* per iteration of body, counts the iterations and never exceeds
\* max_time_steps, whatever the stopping sums are.
C1_LoopBoundedByMaxTimeSteps ==
    /\ [](step >= 0 /\ step <= max_time_steps /\ Iterations = step)
    /\ [][(pc = "loop" /\ pc' = "loop") => step' = step + 1]_vars
    /\ [][step' # step => (pc = "loop" /\ pc' = "loop")]_vars
    /\ [](pc = "constructed" => <>(pc = "done"))

\* the loop ended by the step bound alone, an element still below threshold
C1_Witness ==
    /\ pc = "done"
    /\ step = max_time_steps
    /\ step >= 2
    /\ \E b \in Batch : stopping_sum[b] < stopping_threshold

\* C2: an iteration of body never decreases the stopping sum of any batch
\* element, in any mode.
C2_StoppingSumMonotone ==
    [][pc = "loop" => \A b \in Batch : stopping_sum'[b] >= stopping_sum[b]]_vars

\* evaluation mode, presence predicted: one element's sum grew, the other's
\* stayed
C2_Witness ==
    /\ pc = "loop"
    /\ step >= 2
    /\ ~run_all_time_steps
    /\ float_is_training = 0
    /\ stopping_sum[1] = 0
    /\ stopping_sum[2] > 0

\* C3: with run_all_time_steps set, every example ends with
\* predicted_n_digits = max_time_steps, after max_time_steps iterations, each
\* with z_pres = 1.
C3_RunAllForcesMaxTimeSteps ==
    (pc = "done" /\ run_all_time_steps) =>
        /\ step = max_time_steps
        /\ \A b \in Batch : predicted_n_digits[b] = max_time_steps
        /\ \A t \in 1..max_time_steps : \A b \in Batch :
               tensors["z_pres"][t][b] = Unit

\* C4: once an element's stopping sum has reached the threshold in a loop
\* run, the element is not alive in that iteration nor in a later one, and
\* its canvas, KL loss and digit count never change again.
C4_DeathIsAbsorbing ==
    /\ [](\A b \in Batch :
            (pc = "loop" /\ step > 0 /\ stopping_sum[b] >= stopping_threshold)
                => ~alive[b])
    /\ [][\A b \in Batch :
            (pc = "loop" /\ stopping_sum[b] >= stopping_threshold) =>
                /\ stopping_sum'[b] >= stopping_threshold
                /\ (step' # step => ~alive'[b])
                /\ running_recon'[b] = running_recon[b]
                /\ kl_loss'[b] = kl_loss[b]
                /\ running_digits'[b] = running_digits[b]]_vars

\* an iteration has run for an element that was dead before it, while the
\* element had been alive earlier
C4_Witness ==
    /\ pc = "loop"
    /\ step >= 3
    /\ \E b \in Batch :
        /\ stopping_sum[b] - (Unit - z_pres[b]) >= stopping_threshold
        /\ running_digits[b] >= 1
        /\ running_recon[b][1] > 0

\* C5: every pixel of the reconstruction used for the loss and exposed as
\* 'output' lies in [0, 1], whatever was accumulated into the canvas.
C5_ReconstructionInUnitRange ==
    pc = "done" =>
        \A b \in Batch : \A p \in Pixels :
            /\ reconstruction[b][p] >= 0
            /\ reconstruction[b][p] <= Unit * Unit

\* overlapping writes summed above 1 and were clipped to 1
C5_Witness ==
    /\ pc = "done"
    /\ \E b \in Batch : \E p \in Pixels :
        /\ running_recon[b][p] > Unit * Unit
        /\ reconstruction[b][p] = Unit * Unit

\* a configuration the spec calls malformed
Malformed ==
    \/ max_time_steps <= 0
    \/ object_shape[1] > obs_shape[1]
    \/ object_shape[2] > obs_shape[2]

\* C8: a malformed configuration (max_time_steps not positive, or a glimpse
\* larger than the image) is rejected at construction and never reaches the
\* inference loop.
C8_MalformedConfigRejected ==
    Malformed => pc = "new"

OutPositions == out_size[1] * out_size[2]

\* C6: after clamping, the four neighbour coordinates lie in the image
\* (0 <= x0, x1 <= W-1 and 0 <= y0, y1 <= H-1) and each flat gather index is
\* b*H*W + y*W + x, inside [0, B*H*W) and inside the b-th image's own block,
\* for every theta, also those that map the grid far outside [-1, 1].
C6_GatherIndicesInRange ==
    sp_pc = "sampled" =>
        \A k \in DOMAIN gather :
            LET g == gather[k]
                b == k \div OutPositions
                HW == U.height * U.width
                InBlock(i) == /\ i >= b * HW
                              /\ i < (b + 1) * HW
                              /\ i >= 0
                              /\ i < U.num_batch * HW
            IN  /\ b < U.num_batch
                /\ g.x0 >= 0 /\ g.x0 <= U.width - 1
                /\ g.x1 >= 0 /\ g.x1 <= U.width - 1
                /\ g.y0 >= 0 /\ g.y0 <= U.height - 1
                /\ g.y1 >= 0 /\ g.y1 <= U.height - 1
                /\ g.idx_a = b * HW + g.y0 * U.width + g.x0
                /\ g.idx_b = b * HW + g.y1 * U.width + g.x0
                /\ g.idx_c = b * HW + g.y0 * U.width + g.x1
                /\ g.idx_d = b * HW + g.y1 * U.width + g.x1
                /\ InBlock(g.idx_a) /\ InBlock(g.idx_b)
                /\ InBlock(g.idx_c) /\ InBlock(g.idx_d)

\* a grid point of the second image was mapped far beyond the right edge and
\* far above the top edge
C6_Witness ==
    /\ sp_pc = "sampled"
    /\ U.height = ImageSide
    /\ U.width = ImageSide
    /\ \E k \in DOMAIN gather :
        /\ k \div OutPositions >= 1
        /\ gather[k].floor_x > U.width
        /\ gather[k].floor_y < -1
        /\ gather[k].x0 = U.width - 1
        /\ gather[k].y1 = 0

IdentityCall ==
    /\ sp_pc = "sampled"
    /\ \A b \in DOMAIN theta : theta[b] = IdentityTheta
    /\ out_size = <<U.height, U.width>>

\* |v - u| <= 0.002 for an interpolated value v and a pixel value u
WithinTolerance(v, u) ==
    LET tol == (2 * PixDen) \div 1000
        d == v[1] - u
    IN  /\ \/ d < 0
           \/ d = 0 /\ (v[2] < tol \/ (v[2] = tol /\ v[3] = 0))
        /\ \/ d >= 0
           \/ d = -1 /\ v[2] >= PixDen - tol

RankedDetections == SortByScore(Detections(predicted_boxes, 1, 0))

TotalBoxes(lists) == SumOver([idx \in Batch |-> Len(lists[idx])], Batch)

\* every example has one predicted box and one ground-truth box with the
\* same coordinates
ExactMatches ==
    \A idx \in Batch :
        /\ Len(predicted_boxes[idx]) = 1
        /\ Len(ground_truth_boxes[idx]) = 1
        /\ Coordinates(predicted_boxes[idx][1])
               = Coordinates(ground_truth_boxes[idx][1])

\* C9: with one predicted box exactly on the one ground-truth box of each
\* example, AP is 1 at every threshold <= 1; with no predicted box and one
\* ground-truth box, AP is 0; a predicted box whose IoU with every unmatched
\* ground-truth box is below the threshold is a false positive, a true
\* positive has IoU >= threshold with the unmatched box it takes, and no
\* ground-truth box is matched by two predicted boxes.
C9_AveragePrecisionCases ==
    ap_pc = "evaluated" =>
        \A i \in 1..Len(iou_threshold) :
            LET dets == RankedDetections
                m == matching[i]
                Earlier(k) == {m[j] : j \in {l \in 1..(k - 1) :
                                               dets[l].ex = dets[k].ex}}
                Boxes(k) == ground_truth_boxes[dets[k].ex]
                Reaches(k, g) ==
                    IouAtLeast(Coordinates(dets[k].box),
                               Coordinates(Boxes(k)[g]), iou_threshold[i])
            IN  /\ ExactMatches => (ap[i].den > 0 /\ ap[i].num = ap[i].den)
                /\ (TotalBoxes(predicted_boxes) = 0
                        /\ TotalBoxes(ground_truth_boxes) = 1)
                       => (ap[i].den > 0 /\ ap[i].num = 0)
                /\ Len(m) = Len(dets)
                /\ \A k \in 1..Len(dets) :
                    /\ (\A g \in 1..Len(Boxes(k)) :
                            g \in Earlier(k) \/ ~Reaches(k, g))
                           => m[k] = 0
                    /\ m[k] # 0 =>
                           /\ m[k] \in 1..Len(Boxes(k))
                           /\ m[k] \notin Earlier(k)
                           /\ Reaches(k, m[k])

\* every example has its one predicted box exactly on its one ground-truth
\* box (annotated with another class), and AP at threshold 1.0 is 1
C9_Witness ==
    /\ ap_pc = "evaluated"
    /\ ExactMatches
    /\ iou_threshold = <<10>>
    /\ \A idx \in Batch : fetched[idx].annotations[1] = AnnotationA
    /\ ap[1].num = ap[1].den
    /\ ap[1].den > 0

\* ------------------------------------------------------------------------
\* Properties of one iteration and of the accumulators
\* ------------------------------------------------------------------------
\* the step just taken was an iteration of body
Iterated == pc = "loop" /\ step' = step + 1

\* what the last iteration logged for element b under name n
LastLogged(n, b) == ta[n][Len(ta[n])][b]

\* the glimpse the last iteration wrote for element b, per canvas pixel
LastWritten(b) == history[Len(history)].vae_output_transformed[b]

\* C11: within an iteration the stopping sum is increased by (1 - z_pres)
\* first and alive is computed from the increased sum; an element whose sum
\* first reaches the threshold in an iteration is not counted in it, and its
\* canvas and KL loss are left as they were.
C11_AliveFromUpdatedSum ==
    [][Iterated =>
        \A b \in Batch :
            /\ stopping_sum'[b] = stopping_sum[b] + (Unit - z_pres'[b])
            /\ alive'[b] <=> (stopping_sum'[b] < stopping_threshold)
            /\ (/\ stopping_sum[b] < stopping_threshold
                /\ stopping_sum'[b] >= stopping_threshold)
                   => /\ running_digits'[b] = running_digits[b]
                      /\ running_recon'[b] = running_recon[b]
                      /\ kl_loss'[b] = kl_loss[b]]_vars

\* an element counted in every earlier iteration reached the threshold in
\* the last one, with a presence, a glimpse and KL terms that were not zero
C11_Witness ==
    /\ pc = "loop"
    /\ step >= 2
    /\ \E b \in Batch :
        /\ stopping_sum[b] >= stopping_threshold
        /\ stopping_sum[b] - (Unit - z_pres[b]) < stopping_threshold
        /\ ~alive[b]
        /\ running_digits[b] = step - 1
        /\ z_pres[b] > 0
        /\ LastWritten(b)[1] > 0
        /\ LastLogged("scale_kl", b) + LastLogged("z_pres_kl", b) > 0

\* the iterations in which element b was alive
AliveIterations(b) == {t \in 1..Len(history) : history[t].alive[b]}

\* C12: for every element the digit count is the number of iterations in
\* which it was alive, these are the first iterations of the run, and
\* predicted_n_digits is that count at loop exit.
C12_DigitsCountAlivePrefix ==
    pc \in {"loop", "done"} =>
        \A b \in Batch :
            /\ Len(history) = step
            /\ running_digits[b] = Cardinality(AliveIterations(b))
            /\ AliveIterations(b) = 1..running_digits[b]
            /\ pc = "done" => predicted_n_digits[b] = running_digits[b]

\* the loop ran three iterations; one element was alive in the first only,
\* the other in the first two
C12_Witness ==
    /\ pc = "done"
    /\ step = 3
    /\ predicted_n_digits[1] = 1
    /\ predicted_n_digits[2] = 2
    /\ AliveIterations(2) = {1, 2}

\* the KL terms iteration t logged for element b
KlTerms(t, b) ==
    ta["scale_kl"][t][b] + ta["shift_kl"][t][b] + ta["attr_kl"][t][b]
        + ta["z_pres_kl"][t][b]

\* z_pres * vae_output_transformed of iteration t at pixel p of element b
Glimpse(t, b, p) ==
    ta["z_pres"][t][b] * history[t].vae_output_transformed[b][p]

\* C13: an iteration adds to the KL loss of every element alive in it
\* exactly scale_kl + shift_kl + attr_kl + z_pres_kl of that iteration, and
\* to every pixel of its canvas exactly z_pres times the written glimpse;
\* from zero, the KL loss and the canvas of an element are the sums of these
\* terms over exactly the iterations in which the element was alive.
C13_AccumulatorsSumAliveTerms ==
    /\ [][Iterated =>
            \A b \in Batch : alive'[b] =>
                /\ kl_loss'[b] = kl_loss[b]
                       + ta'["scale_kl"][step'][b] + ta'["shift_kl"][step'][b]
                       + ta'["attr_kl"][step'][b] + ta'["z_pres_kl"][step'][b]
                /\ \A p \in Pixels :
                       running_recon'[b][p] = running_recon[b][p]
                           + z_pres'[b]
                               * history'[step'].vae_output_transformed[b][p]]_vars
    /\ [](pc \in {"loop", "done"} =>
            \A b \in Batch :
                /\ kl_loss[b] =
                       SumOver([t \in 1..Len(history) |-> KlTerms(t, b)],
                               AliveIterations(b))
                /\ \A p \in Pixels :
                       running_recon[b][p] =
                           SumOver([t \in 1..Len(history) |-> Glimpse(t, b, p)],
                                   AliveIterations(b)))

\* at loop exit an element was alive in some iterations and dead in others
\* whose KL terms and glimpse were not zero, and nothing of these is in its
\* accumulators
C13_Witness ==
    /\ pc = "done"
    /\ \E b \in Batch :
        /\ predicted_n_digits[b] >= 1
        /\ predicted_n_digits[b] < step
        /\ kl_loss[b] > 0
        /\ running_recon[b][1] > 0
        /\ kl_loss[b] < SumOver([t \in 1..step |-> KlTerms(t, b)], 1..step)
        /\ running_recon[b][1]
               < SumOver([t \in 1..step |-> Glimpse(t, b, 1)], 1..step)

\* C14: every iteration runs body for every batch element: an element at or
\* above the threshold still has (1 - z_pres) added to its stopping sum and
\* still gets an entry, with that iteration's latents, in every log; all
\* logs have one row per executed iteration and every row covers the batch.
C14_LockstepBatch ==
    /\ [](pc \in {"loop", "done"} =>
            \A n \in TANames :
                /\ Len(ta[n]) = step
                /\ \A t \in 1..Len(ta[n]) : DOMAIN ta[n][t] = Batch)
    /\ [][Iterated =>
            \A b \in Batch :
                /\ stopping_sum'[b] - stopping_sum[b] = Unit - z_pres'[b]
                /\ \A n \in TANames : Len(ta'[n]) = Len(ta[n]) + 1
                /\ ta'["z_pres"][step'][b] = z_pres'[b]]_vars

\* an element that was dead before the last iteration had its sum increased
\* in it and got latents other than those of the iteration before, while the
\* other element was alive
C14_Witness ==
    /\ pc = "loop"
    /\ step >= 2
    /\ \E b \in Batch :
        /\ stopping_sum[b] - (Unit - z_pres[b]) >= stopping_threshold
        /\ z_pres[b] < Unit
        /\ ta["scale"][step][b] # ta["scale"][step - 1][b]
        /\ ta["attr"][step][b] # ta["attr"][step - 1][b]
        /\ \E c \in Batch : alive[c]

\* a zero array of length max_time_steps into which the first k rows are
\* written at their iteration's index
RECURSIVE PreSized(_, _)
PreSized(rows, k) ==
    IF k = 0 THEN ZeroRows(max_time_steps)
    ELSE [PreSized(rows, k - 1) EXCEPT ![k] = rows[k]]

\* C15: every log grows by one entry per iteration, written at the index of
\* the iteration, earlier entries untouched; after process_tensor_array the
\* time axis has length max_time_steps, holds at t the entry of iteration t
\* and zeros from the number of iterations on, which is what a pre-sized
\* zero array with an effective-length counter holds.
C15_LogsPaddedToMaxTimeSteps ==
    /\ [][Iterated =>
            \A n \in TANames :
                /\ Len(ta'[n]) = step'
                /\ SubSeq(ta'[n], 1, step) = ta[n]]_vars
    /\ [](pc = "done" =>
            \A n \in TANames :
                /\ Len(tensors[n]) = max_time_steps
                /\ \A t \in 1..max_time_steps :
                       tensors[n][t] =
                           IF t <= Iterations THEN ta[n][t] ELSE Zeros
                /\ tensors[n] = PreSized(ta[n], Iterations))

\* the loop ended early: the first rows are the logged ones, the last row is
\* padding
C15_Witness ==
    /\ pc = "done"
    /\ Iterations > 0
    /\ Iterations < max_time_steps
    /\ tensors["scale"][1] = ta["scale"][1]
    /\ tensors["scale"][1] # Zeros
    /\ tensors["scale"][max_time_steps] = Zeros

\* ------------------------------------------------------------------------
\* The loop against max_time_steps masked iterations
\* ------------------------------------------------------------------------
\* the accumulating part of body on the whole batch: the stopping sum, the
\* mask, and the masked additions to the counter, the canvas and the KL loss
MaskedStep(acc, inp) ==
    LET ss == [b \in Batch |->
                  StoppingSumUpdate(acc.stopping_sum[b], inp.z_pres[b])]
        al == [b \in Batch |-> Alive(ss[b])]
    IN  [stopping_sum |-> ss,
         running_digits |->
             [b \in Batch |-> acc.running_digits[b] + Where(al[b], 1)],
         running_recon |->
             [b \in Batch |-> [p \in Pixels |->
                 acc.running_recon[b][p]
                 + Where(al[b], inp.z_pres[b] * inp.written[b][p])]],
         kl_loss |->
             [b \in Batch |->
                 acc.kl_loss[b] + Where(al[b], inp.scale_kl[b])
                                + Where(al[b], inp.shift_kl[b])
                                + Where(al[b], inp.attr_kl[b])
                                + Where(al[b], inp.z_pres_kl[b])]]

\* the iterations run one after the other on the given inputs, with no
\* condition tested in between
RECURSIVE MaskedLoop(_, _)
MaskedLoop(acc, inputs) ==
    IF inputs = <<>> THEN acc
    ELSE MaskedLoop(MaskedStep(acc, Head(inputs)), Tail(inputs))

InitialAccumulators ==
    [stopping_sum |-> Zeros,
     running_digits |-> Zeros,
     running_recon |-> [b \in Batch |-> [p \in Pixels |-> 0]],
     kl_loss |-> Zeros]

\* the presence sample, KL terms and written glimpse iteration t had
LoggedInput(t) ==
    [z_pres |-> ta["z_pres"][t],
     scale_kl |-> ta["scale_kl"][t],
     shift_kl |-> ta["shift_kl"][t],
     attr_kl |-> ta["attr_kl"][t],
     z_pres_kl |-> ta["z_pres_kl"][t],
     written |-> history[t].vae_output_transformed]

\* those of an iteration the loop did not run, for the samples e
SampledInput(e) ==
    [z_pres |-> [b \in Batch |-> ZPres(e[b][1])],
     scale_kl |-> [b \in Batch |-> e[b][2].scale_kl],
     shift_kl |-> [b \in Batch |-> e[b][2].shift_kl],
     attr_kl |-> [b \in Batch |-> e[b][2].attr_kl],
     z_pres_kl |-> [b \in Batch |-> ZPresKl(e[b][2].z_pres_kl)],
     written |-> [b \in Batch |-> e[b][2].written]]

\* C16: the canvas, KL loss and digit count the while-loop ends with are
\* those of max_time_steps masked iterations on the same latents and
\* presence samples, whatever is sampled in the iterations the while-loop
\* did not run.
C16_EqualsFixedMaskedIterations ==
    pc = "done" =>
        LET executed ==
                MaskedLoop(InitialAccumulators,
                           [t \in 1..step |-> LoggedInput(t)])
            remaining == max_time_steps - step
        IN  \A ext \in [1..remaining -> [Batch -> (0..Unit) \X Samples]] :
                LET masked ==
                        MaskedLoop(executed,
                                   [t \in 1..remaining |-> SampledInput(ext[t])])
                IN  /\ masked.running_recon = running_recon
                    /\ masked.kl_loss = kl_loss
                    /\ masked.running_digits = predicted_n_digits

\* the while-loop ended before max_time_steps, every element dead, with
\* something on an element's canvas
C16_Witness ==
    /\ pc = "done"
    /\ step >= 2
    /\ max_time_steps - step >= 1
    /\ \E b \in Batch :
        /\ predicted_n_digits[b] >= 1
        /\ running_recon[b][1] > 0
        /\ kl_loss[b] > 0

\* C20: for every element 0 <= running_digits <= executed iterations <=
\* max_time_steps, and at loop exit every t of range(predicted_n_digits) is
\* an index of the padded time axis of scale and shift at which the row of
\* an executed iteration stands.
C20_DigitsIndexExecutedSteps ==
    pc \in {"loop", "done"} =>
        /\ Iterations <= max_time_steps
        /\ \A b \in Batch :
            /\ running_digits[b] >= 0
            /\ running_digits[b] <= Iterations
            /\ pc = "done" =>
                /\ predicted_n_digits[b] \in 0..Iterations
                /\ \A t \in 1..predicted_n_digits[b] :
                       \A n \in {"scale", "shift"} :
                           /\ t \in DOMAIN tensors[n]
                           /\ t <= Len(ta[n])
                           /\ tensors[n][t] = ta[n][t]

\* one element was counted in every one of max_time_steps iterations, the
\* other in fewer
C20_Witness ==
    /\ pc = "done"
    /\ max_time_steps >= 2
    /\ Iterations = max_time_steps
    /\ predicted_n_digits[1] = max_time_steps
    /\ predicted_n_digits[2] < max_time_steps
    /\ predicted_n_digits[2] >= 1

\* ------------------------------------------------------------------------
\* Properties of the transform pair
\* ------------------------------------------------------------------------
\* C17: theta is [[w, 0, x], [0, h, y]] and theta_inverse is
\* [[1/w, 0, -x/w], [0, 1/h, -y/h]]; a coordinate sent through theta and
\* then theta_inverse comes back unchanged, and so in the other order; the
\* shear entries of both are zero.
C17_ThetaInverseInvertsTheta ==
    th_pc = "built" =>
        LET w == body_scale[1]
            h == body_scale[2]
            x == body_shift[1]
            y == body_shift[2]
        IN  /\ body_theta[1] = w /\ body_theta[3] = x
            /\ body_theta[5] = h /\ body_theta[6] = y
            /\ RatMul(theta_inverse[1], w) = RatOne
            /\ RatMul(theta_inverse[5], h) = RatOne
            /\ RatMul(theta_inverse[3], w) = RatNeg(x)
            /\ RatMul(theta_inverse[6], h) = RatNeg(y)
            /\ body_theta[2] = RatZero /\ body_theta[4] = RatZero
            /\ theta_inverse[2] = RatZero /\ theta_inverse[4] = RatZero
            /\ Affine(theta_inverse, Affine(body_theta, grid_point)) = grid_point
            /\ Affine(body_theta, Affine(theta_inverse, grid_point)) = grid_point
            /\ round_trip.read_write = grid_point
            /\ round_trip.write_read = grid_point

\* an anisotropic scale and a shift off both axes: the coordinate is moved
\* by each transform and restored by the other
C17_Witness ==
    /\ th_pc = "built"
    /\ body_scale[1] # body_scale[2]
    /\ body_shift[1] # RatZero
    /\ body_shift[2] # RatZero
    /\ body_shift[1] # body_shift[2]
    /\ grid_point[1] # RatZero
    /\ round_trip.read[1] # grid_point[1]
    /\ round_trip.read[2] # grid_point[2]
    /\ round_trip.write # grid_point
    /\ round_trip.read_write = grid_point

\* ------------------------------------------------------------------------
\* Properties of the boxes AIR_AP.__call__ builds
\* ------------------------------------------------------------------------
\* the positions of the annotations of example idx that are kept
KeptAnnotations(idx) ==
    {i \in 1..Min(fetched[idx].n_annotations, Len(fetched[idx].annotations)) :
        fetched[idx].annotations[i][1] # 0}

\* C18: example idx gets exactly predicted_n_digits[idx] predicted boxes,
\* those of time steps 0 .. predicted_n_digits[idx]-1 in order, each of
\* class 0 and score 1; its ground-truth list holds exactly the valid
\* annotations among the first n_annotations[idx], in order, each with class
\* 0 and its (top, bottom, left, right) unchanged.
C18_BoxListsBuilt ==
    ap_pc = "evaluated" =>
        \A idx \in Batch :
            LET f == fetched[idx]
                pb == predicted_boxes[idx]
                gt == ground_truth_boxes[idx]
                K == KeptAnnotations(idx)
            IN  /\ Len(pb) = f.predicted_n_digits
                /\ \A t \in 1..Len(pb) :
                    /\ Len(pb[t]) = 6
                    /\ pb[t][1] = 0
                    /\ pb[t][2] = 1
                    /\ Coordinates(pb[t]) =
                           Coordinates(PredictedBox(f.latents[t].w,
                                                    f.latents[t].h,
                                                    f.latents[t].x,
                                                    f.latents[t].y))
                /\ Len(gt) = Cardinality(K)
                /\ \A i \in K :
                       LET j == Cardinality({k \in K : k <= i})
                       IN  gt[j] = <<0, f.annotations[i][3], f.annotations[i][4],
                                        f.annotations[i][5], f.annotations[i][6]>>

\* one example has fewer digits than time steps and an invalid annotation
\* in front of a valid one of another class; the other has an annotation
\* beyond n_annotations
C18_Witness ==
    /\ ap_pc = "evaluated"
    /\ fetched[1].predicted_n_digits = 1
    /\ fetched[1].latents[1] # fetched[1].latents[2]
    /\ fetched[1].annotations = <<AnnotationInvalidA, AnnotationA>>
    /\ fetched[1].n_annotations = 2
    /\ Len(ground_truth_boxes[1]) = 1
    /\ fetched[2].predicted_n_digits = APSteps
    /\ fetched[2].annotations = <<AnnotationB, AnnotationA>>
    /\ fetched[2].n_annotations = 1
    /\ Len(ground_truth_boxes[2]) = 1
    /\ ground_truth_boxes[2][1][1] = 0

\* ------------------------------------------------------------------------
\* Properties of the sub-components
\* ------------------------------------------------------------------------
\* C19: a component is built only while its attribute is None, an attribute
\* that holds an instance keeps it, so that each attribute has had one
\* instance at most, across calls of build_representation; every invocation,
\* in every iteration, goes to the instance the attribute holds.
C19_ComponentsSharedNotRebuilt ==
    /\ [][\A n \in ComponentNames :
            /\ instances'[n] # instances[n] =>
                   (components[n] = 0 /\ net_pc = "idle")
            /\ components[n] # 0 => components'[n] = components[n]]_vars
    /\ [](net_pc \in {"idle", "loop"} =>
            \A n \in ComponentNames :
                /\ instances[n] <= 1
                /\ invoked[n] \subseteq {components[n]}
                /\ 0 \notin invoked[n]
                /\ calls >= 1 => components[n] = 1)

\* in the second call of build_representation, after iterations in both
\* calls: components built by the first call and one supplied beforehand
\* have all been invoked
C19_Witness ==
    /\ net_pc = "loop"
    /\ calls = 2
    /\ net_step >= 2
    /\ difference_air
    /\ \A n \in ComponentNames : invoked[n] = {1}
    /\ \A n \in ComponentNames : instances[n] = 1

\* ------------------------------------------------------------------------
\* Properties of the digit count in evaluation
\* ------------------------------------------------------------------------
\* evaluation, presence predicted, 0 < stopping_threshold <= 1
HardPresenceLowThreshold ==
    /\ float_is_training = 0
    /\ ~run_all_time_steps
    /\ stopping_threshold >= 1
    /\ stopping_threshold <= Unit

\* the iterations from the start up to which every z_pres of b was 1
LeadingPresent(b) ==
    {t \in 1..Iterations : \A u \in 1..t : ta["z_pres"][u][b] = Unit}

\* C21: in evaluation with presence predicted and 0 < stopping_threshold
\* <= 1, every z_pres is 0 or 1 and predicted_n_digits of an element is the
\* number of iterations from the start with z_pres = 1, at most
\* max_time_steps: every counted iteration has z_pres = 1, the element is
\* dead from its first z_pres = 0 on, whatever z_pres is afterwards.
C21_DigitsCountLeadingPresence ==
    (pc = "done" /\ HardPresenceLowThreshold) =>
        \A b \in Batch :
            /\ \A t \in 1..Iterations : ta["z_pres"][t][b] \in {0, Unit}
            /\ predicted_n_digits[b] = Cardinality(LeadingPresent(b))
            /\ predicted_n_digits[b] <= max_time_steps
            /\ \A t \in 1..predicted_n_digits[b] : ta["z_pres"][t][b] = Unit
            /\ predicted_n_digits[b] < Iterations =>
                   ta["z_pres"][predicted_n_digits[b] + 1][b] = 0
            /\ \A t \in 1..Iterations :
                   history[t].alive[b] <=> t <= predicted_n_digits[b]

\* one element was present, absent, then present again and is counted once;
\* the other was present in all of max_time_steps iterations
C21_Witness ==
    /\ pc = "done"
    /\ HardPresenceLowThreshold
    /\ Iterations = 3
    /\ ta["z_pres"][1][1] = Unit
    /\ ta["z_pres"][2][1] = 0
    /\ ta["z_pres"][3][1] = Unit
    /\ predicted_n_digits[1] = 1
    /\ predicted_n_digits[2] = max_time_steps

\* a threshold above 1 in evaluation: an iteration with z_pres = 0 in which
\* the element was alive
AbsentStepCounted ==
    /\ pc = "done"
    /\ float_is_training = 0
    /\ ~run_all_time_steps
    /\ stopping_threshold > Unit
    /\ \E b \in Batch : \E t \in 1..Iterations :
        /\ ta["z_pres"][t][b] = 0
        /\ history[t].alive[b]

====
